---- MODULE Spec2Model ----
(***************************************************************************)
(* A model of the DynamoDB -> S3 -> Redshift extraction pipeline of        *)
(* src/src/etl.py (DataExtraction.extract_and_load and the three           *)
(* connectors it drives) and of the GET / handler of src/src/main.py.      *)
(*                                                                         *)
(* Strings the code inspects character by character (table names, which    *)
(* str.startswith reads) are sequences of one-character strings.  Every    *)
(* call that leaves the process (list_tables, key_schema, scan, to_csv,    *)
(* upload_file, cursor.execute) may fail.                                  *)
(***************************************************************************)
EXTENDS Integers, Sequences, FiniteSets, TLC

(***************************************************************************)
(* Bounds of the model.                                                    *)
(***************************************************************************)
\* how many times the pipeline (python etl.py) is run in a behaviour
MaxRuns == 2
\* how far the wall clock advances, in ticks of half a second
MaxClock == 2
\* how many external calls fail by their own in a behaviour
MaxFailures == 1

(***************************************************************************)
(* Values.                                                                 *)
(***************************************************************************)
\* Python's None, and the state of a local name that was never assigned
None == "None"
UNBOUND == "<unbound>"
\* SQL NULL
NULL == "<NULL>"
NoError == "<no error>"

\* the process configuration read under __main__
bucket_name == "data_bucket"
arn == "redshift_copy_arn"
local_storage_dir == <<"r", "a", "w">>

\* ticks of the model's wall clock per second; strftime keeps whole seconds
TicksPerSecond == 2

\* boto3's list_tables returns one page of names per call; the page size is
\* scaled from DynamoDB's 100 down to 2
ListTablesLimit == 2

(***************************************************************************)
(* The source store: tables, their key schemas and their items.            *)
(***************************************************************************)
stg_users == <<"s", "t", "g", "u">>
stg_empty == <<"s", "t", "g", "e">>
stg_nokey == <<"s", "t", "g", "n">>
stg_keyless == <<"s", "t", "g", "k">>
orders == <<"o", "r", "d">>
xstg == <<"x", "s", "t", "g">>
st == <<"s", "t">>

KeySchemaOf(t) ==
  CASE t = stg_users -> <<[AttributeName |-> "id", KeyType |-> "HASH"]>>
    [] t = stg_empty -> <<[AttributeName |-> "id", KeyType |-> "HASH"]>>
    [] t = orders -> <<[AttributeName |-> "oid", KeyType |-> "HASH"],
                       [AttributeName |-> "ts", KeyType |-> "RANGE"]>>
    [] t = xstg -> <<[AttributeName |-> "id", KeyType |-> "HASH"]>>
    [] t = st -> <<[AttributeName |-> "id", KeyType |-> "HASH"]>>
    [] t = stg_nokey -> <<[AttributeName |-> "ts", KeyType |-> "RANGE"]>>
    [] t = stg_keyless -> <<[AttributeName |-> "ts"]>>

ItemsOf(t) ==
  CASE t = stg_users -> <<[id |-> "1", created |-> "2024-01-01"], [id |-> "2"]>>
    [] t = stg_empty -> <<>>
    [] t = orders -> <<[oid |-> "7", ts |-> "9", created |-> "2023-05-05"]>>
    [] t = xstg -> <<[id |-> "x"]>>
    [] t = st -> <<[id |-> "s"]>>
    [] t = stg_nokey -> <<>>
    [] t = stg_keyless -> <<[ts |-> "3"]>>

\* the stores a behaviour may start from: the order is the order in which
\* the backend lists the tables
Stores ==
  { <<stg_users, orders>>,
    <<orders, stg_empty>>,
    <<orders, xstg, stg_users>>,
    <<stg_nokey>>,
    <<stg_keyless>>,
    <<st, stg_users>> }

(***************************************************************************)
(* Helpers on sequences.                                                   *)
(***************************************************************************)
Range(s) == {s[i] : i \in 1..Len(s)}
Min(a, b) == IF a < b THEN a ELSE b
Last(s) == s[Len(s)]

\* str.startswith
startswith(s, prefix) ==
  /\ Len(s) >= Len(prefix)
  /\ SubSeq(s, 1, Len(prefix)) = prefix

\* f"raw_{table}"
raw_(table) == <<"r", "a", "w", "_">> \o table
\* f"{self.local_storage_dir}/{table}.csv"
local_path_of(table) == local_storage_dir \o <<"/">> \o table \o <<".", "c", "s", "v">>
\* f"s3://{bucket_name}/{local_path}"
s3_uri(bucket, path) == [scheme |-> "s3", bucket |-> bucket, key |-> path]

(***************************************************************************)
(* Pure functions of etl.py.                                               *)
(***************************************************************************)
\* DynamoDBConnector.list_tables: one list_tables call, its first page
list_tables(names) == SubSeq(names, 1, Min(Len(names), ListTablesLimit))

\* the eligibility test of the loop of extract_and_load: TRUE = skipped
is_skipped(env, table) ==
  env = "dev" /\ ~startswith(table, <<"s", "t", "g">>)

\* keys.get('KeyType', None)
KeyTypeOf(keys) == IF "KeyType" \in DOMAIN keys THEN keys.KeyType ELSE None

\* pk before the key-schema loop: the name is not assigned
\* variant: pk = None before the loop
pk_unassigned_none == None
pk_unassigned == UNBOUND

\* the key-schema loop of pull_data_from_dynamo: pk is assigned at every
\* HASH entry, and stays as it was when there is none
RECURSIVE hash_key(_, _)
hash_key(schema, pk0) ==
  IF schema = <<>> THEN pk0
  ELSE hash_key(Tail(schema),
                IF KeyTypeOf(Head(schema)) = "HASH"
                THEN Head(schema).AttributeName ELSE pk0)

\* data.extend(response['Items'])
\* variant: data = response['Items'] inside the loop
extend_replace(data, items) == items
extend(data, items) == data \o items

\* utc_now.strftime("%Y-%m-%d %H:%M:%S%Z"): the time to the second
strftime(now) == ToString(now \div TicksPerSecond)

\* item.get('created', None)
\* variant: 'created' taken from the clock like 'updated'
created_wallclock(item, now) == strftime(now)
created_of(item, now) == IF "created" \in DOMAIN item THEN item.created ELSE None

\* one iteration of the loop of transform_data
transform_item(item, pk, now) ==
  [row_id |-> item[pk],
   data |-> item,
   created |-> created_of(item, now),
   updated |-> strftime(now),
   isDeleted |-> FALSE]

\* DataFrame.to_csv(local_path, index=False): a header line and one line per
\* row; a frame built from no records has no columns, its file is one empty
\* line.  None is written as the empty field, False as the text False, a dict
\* as its str().
csv_header == <<"row_id", "data", "created", "updated", "isDeleted">>
csv_line(r) ==
  <<r.row_id,
    [str |-> r.data],
    IF r.created = None THEN "" ELSE r.created,
    r.updated,
    IF r.isDeleted THEN "True" ELSE "False">>
to_csv(df) ==
  IF df = <<>> THEN << <<>> >>
  ELSE <<csv_header>> \o [i \in 1..Len(df) |-> csv_line(df[i])]

\* COPY ... delimiter ',' ignoreheader 1 csv: the lines after the first, the
\* fields taken by position into (id, data, createdAt, updatedAt, isDeleted)
copy_row(line) ==
  [id |-> line[1],
   data |-> line[2],
   createdAt |-> IF line[3] = "" THEN NULL ELSE line[3],
   updatedAt |-> line[4],
   isDeleted |-> (line[5] = "True")]
copy_rows(csv) == [i \in 1..(Len(csv) - 1) |-> copy_row(csv[i + 1])]

\* TRUNCATE TABLE
\* variant: the truncate leaves the rows
truncate_keep(rows) == rows
truncate_table(rows) == <<>>

\* the statements of copy_s3_data, in the order it issues them
\* variant: truncate issued before create
copy_s3_data_truncate_first == <<"truncate", "create", "copy">>
copy_s3_data == <<"create", "truncate", "copy">>

\* what each except clause does with the error it caught (and, before each,
\* the variant with the other behaviour)
upload_file_swallow == "swallow"
upload_file_except == "raise"
list_tables_except == "raise"
execute_query_reraise == "raise"
execute_query_except == "swallow"
extract_and_load_reraise == "raise"
extract_and_load_except == "swallow"

(***************************************************************************)
(* main.py: the GET / handler and FastAPI's serialisation of what it       *)
(* returns.                                                                *)
(***************************************************************************)
\* def index(): return 200, "Hello World"   -- a tuple
index == [type |-> "tuple", val |-> <<200, "Hello World">>]

\* fastapi.encoders.jsonable_encoder: a tuple becomes a JSON array
jsonable_encoder(v) ==
  CASE v.type = "str" -> [kind |-> "string", val |-> v.val]
    [] v.type = "int" -> [kind |-> "number", val |-> v.val]
    [] v.type = "tuple" -> [kind |-> "array", val |-> v.val]

\* @app.get('/') with no status_code: the route answers 200 and the encoded
\* return value
get_route(ret) == [status_code |-> 200, json |-> jsonable_encoder(ret)]

(***************************************************************************)
(* State.                                                                  *)
(***************************************************************************)
VARIABLES
  environment,      \* os.getenv('env', 'dev')
  store,            \* the table names of the source store, in listing order
  clock,            \* the wall clock, in ticks
  failures,         \* external calls that have failed so far
  run,              \* runs of the pipeline started so far
  pc,               \* where extract_and_load stands
  tables,           \* tables, the list returned by list_tables
  idx,              \* position of the loop over tables
  pk,               \* pk of pull_data_from_dynamo
  response,         \* response, the last scan response
  data,             \* data of pull_data_from_dynamo
  pages,            \* scan responses received for the current table
  transformed_data, \* transformed_data, then the DataFrame df
  stmt,             \* position in the statements of copy_s3_data
  files,            \* the local file system: path -> csv lines
  s3,               \* the object store: (bucket, key) -> csv lines
  warehouse,        \* the warehouse: table name -> rows
  log,              \* the stage calls and returns of this run, in order
  statements,       \* the statements _execute_query ran in this run
  caught,           \* the error the outer except caught in this run
  propagated,       \* extract_and_load raised to its caller
  stepFailed,       \* some step of this run failed
  processed,        \* the tables this run entered the per-table sequence for
  previous,         \* the warehouse as the previous run left it
  httpResponse      \* the last answer to GET /

vars ==
  <<environment, store, clock, failures, run, pc, tables, idx, pk, response,
    data, pages, transformed_data, stmt, files, s3, warehouse, log,
    statements, caught, propagated, stepFailed, processed, previous,
    httpResponse>>

config == <<environment, store>>
locals == <<tables, idx, pk, response, data, pages, transformed_data, stmt>>
stores == <<files, s3, warehouse>>
outcome == <<caught, propagated>>

table == tables[idx]

StaleRow ==
  [id |-> "stale", data |-> [str |-> [id |-> "stale"]], createdAt |-> NULL,
   updatedAt |-> "0", isDeleted |-> FALSE]

NoResponse == [status_code |-> 0, json |-> [kind |-> "none", val |-> None]]

Ev(t, stage, ev) == [table |-> t, stage |-> stage, ev |-> ev]

Init ==
  /\ environment \in {"dev", "prod"}
  /\ store \in Stores
  /\ clock = 0
  /\ failures = 0
  /\ run = 0
  /\ pc = "idle"
  /\ tables = <<>>
  /\ idx = 0
  /\ pk = pk_unassigned
  /\ response = [Items |-> <<>>]
  /\ data = <<>>
  /\ pages = 0
  /\ transformed_data = <<>>
  /\ stmt = 0
  /\ files = <<>>
  /\ s3 = <<>>
  /\ warehouse \in { <<>>, [n \in {raw_(t) : t \in Range(store)} |-> <<StaleRow>>] }
  /\ log = <<>>
  /\ statements = <<>>
  /\ caught = NoError
  /\ propagated = FALSE
  /\ stepFailed = FALSE
  /\ processed = <<>>
  /\ previous = [ran |-> FALSE, clean |-> FALSE, warehouse |-> <<>>]
  /\ httpResponse = NoResponse

(***************************************************************************)
(* The environment.                                                        *)
(***************************************************************************)
\* time passes
Tick ==
  /\ clock < MaxClock
  /\ clock' = clock + 1
  /\ UNCHANGED <<config, failures, run, pc, locals, stores, log, statements,
                 outcome, stepFailed, processed, previous, httpResponse>>

\* a client sends GET /
HttpGet ==
  /\ httpResponse' = get_route(index)
  /\ UNCHANGED <<config, clock, failures, run, pc, locals, stores, log,
                 statements, outcome, stepFailed, processed, previous>>

(***************************************************************************)
(* extract_and_load.                                                       *)
(***************************************************************************)
\* python etl.py: __main__ builds DataExtraction and calls extract_and_load
StartRun ==
  /\ pc \in {"idle", "done"}
  /\ run < MaxRuns
  /\ run' = run + 1
  /\ pc' = "list"
  /\ tables' = <<>> /\ idx' = 0 /\ pk' = pk_unassigned /\ response' = [Items |-> <<>>]
  /\ data' = <<>> /\ pages' = 0 /\ transformed_data' = <<>> /\ stmt' = 0
  /\ log' = <<>> /\ statements' = <<>>
  /\ caught' = NoError /\ propagated' = FALSE
  /\ stepFailed' = FALSE /\ processed' = <<>>
  /\ previous' = [ran |-> run > 0,
                  clean |-> run > 0 /\ ~stepFailed,
                  warehouse |-> warehouse]
  /\ UNCHANGED <<config, clock, failures, stores, httpResponse>>

\* an error of kind e reaches the try block of extract_and_load while the
\* stage `stage` of table t runs (lg is the log up to the failing call): the
\* except clause logs it and the function ends
Raise(lg, t, stage, e) ==
  /\ log' = Append(lg, Ev(t, stage, "error"))
  /\ stepFailed' = TRUE
  /\ caught' = e
  /\ propagated' = (extract_and_load_except = "raise")
  /\ pc' = "done"

CanFail == failures < MaxFailures

\* tables = self.dynamo.list_tables()
ListTablesOk ==
  /\ pc = "list"
  /\ tables' = list_tables(store)
  /\ pc' = "loop"
  /\ log' = log \o <<Ev(<<>>, "list", "call"), Ev(<<>>, "list", "ok")>>
  /\ UNCHANGED <<config, clock, failures, run, idx, pk, response, data, pages,
                 transformed_data, stmt, stores, statements, outcome,
                 stepFailed, processed, previous, httpResponse>>

\* list_tables logs the error and raises it again
ListTablesFail ==
  /\ pc = "list"
  /\ CanFail
  /\ list_tables_except = "raise"
  /\ failures' = failures + 1
  /\ Raise(Append(log, Ev(<<>>, "list", "call")), <<>>, "list", "ClientError")
  /\ UNCHANGED <<config, clock, run, locals, stores, statements, processed,
                 previous, httpResponse>>

\* for table in tables: the list is exhausted, extract_and_load returns
LoopEnd ==
  /\ pc = "loop"
  /\ idx = Len(tables)
  /\ pc' = "done"
  /\ UNCHANGED <<config, clock, failures, run, locals, stores, log,
                 statements, outcome, stepFailed, processed, previous,
                 httpResponse>>

\* if self.environment == 'dev' and not table.startswith('stg'): continue
LoopSkip ==
  /\ pc = "loop"
  /\ idx < Len(tables)
  /\ is_skipped(environment, tables[idx + 1])
  /\ idx' = idx + 1
  /\ UNCHANGED <<config, clock, failures, run, pc, tables, pk, response, data,
                 pages, transformed_data, stmt, stores, log, statements,
                 outcome, stepFailed, processed, previous, httpResponse>>

\* df = self.pull_data_from_dynamo(table): the call
LoopEnter ==
  /\ pc = "loop"
  /\ idx < Len(tables)
  /\ ~is_skipped(environment, tables[idx + 1])
  /\ idx' = idx + 1
  /\ pc' = "schema"
  /\ processed' = Append(processed, tables[idx + 1])
  /\ pk' = pk_unassigned /\ response' = [Items |-> <<>>] /\ data' = <<>>
  /\ pages' = 0 /\ transformed_data' = <<>> /\ stmt' = 0
  /\ log' = Append(log, Ev(tables[idx + 1], "scan", "call"))
  /\ UNCHANGED <<config, clock, failures, run, tables, stores, statements,
                 outcome, stepFailed, previous, httpResponse>>

(***************************************************************************)
(* pull_data_from_dynamo and transform_data.                               *)
(***************************************************************************)
\* for keys in table.key_schema: ...
KeySchemaOk ==
  /\ pc = "schema"
  /\ pk' = hash_key(KeySchemaOf(table), pk)
  /\ pc' = "scan"
  /\ UNCHANGED <<config, clock, failures, run, tables, idx, response, data,
                 pages, transformed_data, stmt, stores, log, statements,
                 outcome, stepFailed, processed, previous, httpResponse>>

\* table.key_schema loads the table's description, which may fail
KeySchemaFail ==
  /\ pc = "schema"
  /\ CanFail
  /\ failures' = failures + 1
  /\ Raise(log, table, "scan", "ClientError")
  /\ UNCHANGED <<config, clock, run, locals, stores, statements, processed,
                 previous, httpResponse>>

\* what the backend may answer to a scan that starts after item `start`:
\* the items up to some j, with a LastEvaluatedKey unless the scan is over
ScanResponses(items, start) ==
  { IF more THEN [Items |-> SubSeq(items, start + 1, j), LastEvaluatedKey |-> j]
            ELSE [Items |-> SubSeq(items, start + 1, j)] :
      <<j, more>> \in
        { jm \in (start..Len(items)) \X BOOLEAN :
            /\ jm[1] > start \/ start = Len(items)
            /\ jm[1] < Len(items) => jm[2]
            /\ start = Len(items) => ~jm[2] } }

\* the scan is over when the response carries no LastEvaluatedKey
AfterScan(resp, lg, t) ==
  IF "LastEvaluatedKey" \in DOMAIN resp
  THEN /\ pc' = "scan"
       /\ log' = lg
  ELSE /\ pc' = "transform"
       /\ log' = Append(lg, Ev(t, "scan", "ok"))

\* response = table.scan(); data = response['Items']
ScanFirst ==
  /\ pc = "scan"
  /\ pages = 0
  /\ \E resp \in ScanResponses(ItemsOf(table), 0) :
       /\ response' = resp
       /\ data' = resp.Items
       /\ AfterScan(resp, log, table)
  /\ pages' = 1
  /\ UNCHANGED <<config, clock, failures, run, tables, idx, pk,
                 transformed_data, stmt, stores, statements, outcome,
                 stepFailed, processed, previous, httpResponse>>

\* while 'LastEvaluatedKey' in response: scan from it and extend data
ScanNext ==
  /\ pc = "scan"
  /\ pages > 0
  /\ "LastEvaluatedKey" \in DOMAIN response
  /\ \E resp \in ScanResponses(ItemsOf(table), response.LastEvaluatedKey) :
       /\ response' = resp
       /\ data' = extend(data, resp.Items)
       /\ AfterScan(resp, log, table)
  /\ pages' = pages + 1
  /\ UNCHANGED <<config, clock, failures, run, tables, idx, pk,
                 transformed_data, stmt, stores, statements, outcome,
                 stepFailed, processed, previous, httpResponse>>

\* a scan request fails
ScanFail ==
  /\ pc = "scan"
  /\ CanFail
  /\ failures' = failures + 1
  /\ Raise(log, table, "scan", "ClientError")
  /\ UNCHANGED <<config, clock, run, locals, stores, statements, processed,
                 previous, httpResponse>>

\* self.transform_data(data, pk) with pk never assigned: reading the name
\* raises UnboundLocalError before transform_data is entered
TransformUnbound ==
  /\ pc = "transform"
  /\ pk = UNBOUND
  /\ Raise(Append(log, Ev(table, "transform", "call")), table, "transform",
           "UnboundLocalError")
  /\ UNCHANGED <<config, clock, failures, run, locals, stores, statements,
                 processed, previous, httpResponse>>

\* transformed_data = self.transform_data(data, pk): the call
TransformCall ==
  /\ pc = "transform"
  /\ pk # UNBOUND
  /\ pc' = "transforming"
  /\ transformed_data' = <<>>
  /\ log' = Append(log, Ev(table, "transform", "call"))
  /\ UNCHANGED <<config, clock, failures, run, tables, idx, pk, response,
                 data, pages, stmt, stores, statements, outcome, stepFailed,
                 processed, previous, httpResponse>>

\* one iteration of for item in items; item[pk] raises KeyError when the
\* item has no such attribute
TransformItem ==
  /\ pc = "transforming"
  /\ Len(transformed_data) < Len(data)
  /\ LET item == data[Len(transformed_data) + 1] IN
       IF pk \in DOMAIN item
       THEN /\ transformed_data' =
                 Append(transformed_data, transform_item(item, pk, clock))
            /\ UNCHANGED <<pc, log, outcome, stepFailed>>
       ELSE /\ Raise(log, table, "transform", "KeyError")
            /\ UNCHANGED transformed_data
  /\ UNCHANGED <<config, clock, failures, run, tables, idx, pk, response,
                 data, pages, stmt, stores, statements, processed, previous,
                 httpResponse>>

\* return pd.DataFrame(transformed_data)
TransformReturn ==
  /\ pc = "transforming"
  /\ Len(transformed_data) = Len(data)
  /\ pc' = "stage"
  /\ log' = Append(log, Ev(table, "transform", "ok"))
  /\ UNCHANGED <<config, clock, failures, run, locals, stores, statements,
                 outcome, stepFailed, processed, previous, httpResponse>>

(***************************************************************************)
(* Staging to the local file and the upload.                               *)
(***************************************************************************)
\* os.makedirs(...); df.to_csv(local_path, index=False)
StageOk ==
  /\ pc = "stage"
  /\ files' = (local_path_of(table) :> to_csv(transformed_data)) @@ files
  /\ pc' = "upload"
  /\ log' = log \o <<Ev(table, "stage", "call"), Ev(table, "stage", "ok")>>
  /\ UNCHANGED <<config, clock, failures, run, locals, s3, warehouse,
                 statements, outcome, stepFailed, processed, previous,
                 httpResponse>>

\* the directory or the file cannot be written
StageFail ==
  /\ pc = "stage"
  /\ CanFail
  /\ failures' = failures + 1
  /\ Raise(Append(log, Ev(table, "stage", "call")), table, "stage", "OSError")
  /\ UNCHANGED <<config, clock, run, locals, stores, statements, processed,
                 previous, httpResponse>>

\* self.s3.upload_file(local_path, bucket_name): the object's key is the
\* file's name
UploadOk ==
  /\ pc = "upload"
  /\ s3' = ([bucket |-> bucket_name, key |-> local_path_of(table)]
              :> files[local_path_of(table)]) @@ s3
  /\ pc' = "load"
  /\ stmt' = 1
  /\ log' = log \o <<Ev(table, "upload", "call"), Ev(table, "upload", "ok")>>
  /\ UNCHANGED <<config, clock, failures, run, tables, idx, pk, response,
                 data, pages, transformed_data, files, warehouse, statements,
                 outcome, stepFailed, processed, previous, httpResponse>>

\* the upload fails: upload_file logs the error and raises it again
UploadFail ==
  /\ pc = "upload"
  /\ CanFail
  /\ failures' = failures + 1
  /\ IF upload_file_except = "raise"
     THEN /\ Raise(Append(log, Ev(table, "upload", "call")), table, "upload",
                   "S3UploadFailedError")
          /\ UNCHANGED stmt
     ELSE /\ log' = log \o <<Ev(table, "upload", "call"),
                             Ev(table, "upload", "error")>>
          /\ stepFailed' = TRUE
          /\ pc' = "load"
          /\ stmt' = 1
          /\ UNCHANGED outcome
  /\ UNCHANGED <<config, clock, run, tables, idx, pk, response, data, pages,
                 transformed_data, stores, statements, processed, previous,
                 httpResponse>>

(***************************************************************************)
(* RedshiftConnector.                                                      *)
(***************************************************************************)
HasTable(wh, name) == name \in DOMAIN wh
HasObject(uri) == [bucket |-> uri.bucket, key |-> uri.key] \in DOMAIN s3
ObjectAt(uri) == s3[[bucket |-> uri.bucket, key |-> uri.key]]

\* the query text each method builds
Query(kind, name, s3_path, role_arn) ==
  CASE kind = "create" -> [kind |-> "create", table |-> name]
    [] kind = "truncate" -> [kind |-> "truncate", table |-> name]
    [] kind = "copy" -> [kind |-> "copy", table |-> name, from |-> s3_path,
                         iam_role |-> role_arn]

\* whether the warehouse can execute the query
Executable(q) ==
  CASE q.kind = "create" -> TRUE
    [] q.kind = "truncate" -> HasTable(warehouse, q.table)
    [] q.kind = "copy" -> HasTable(warehouse, q.table) /\ HasObject(q.from)

\* the warehouse after the query
Executed(q) ==
  CASE q.kind = "create" ->
         IF HasTable(warehouse, q.table) THEN warehouse
         ELSE (q.table :> <<>>) @@ warehouse
    [] q.kind = "truncate" ->
         [warehouse EXCEPT ![q.table] = truncate_table(@)]
    [] q.kind = "copy" ->
         [warehouse EXCEPT ![q.table] = @ \o copy_rows(ObjectAt(q.from))]

\* the query copy_s3_data is about to issue
CurrentQuery ==
  Query(copy_s3_data[stmt], raw_(table),
        s3_uri(bucket_name, local_path_of(table)), arn)

\* the load stage's log up to the current statement
LoadLog == IF stmt = 1 THEN Append(log, Ev(table, "load", "call")) ELSE log

\* copy_s3_data goes on to its next statement, or returns to the loop
AfterStatement ==
  IF stmt < Len(copy_s3_data)
  THEN /\ stmt' = stmt + 1
       /\ pc' = "load"
       /\ log' = LoadLog
  ELSE /\ stmt' = 0
       /\ pc' = "loop"
       /\ log' = Append(LoadLog, Ev(table, "load", "ok"))

\* _execute_query: cursor.execute succeeds; no statement of the loader has a
\* result set, so result = None; commit; return result
ExecuteQueryOk ==
  /\ pc = "load"
  /\ Executable(CurrentQuery)
  /\ warehouse' = Executed(CurrentQuery)
  /\ statements' = Append(statements,
       [query |-> CurrentQuery, end |-> "commit", returned |-> None])
  /\ AfterStatement
  /\ UNCHANGED <<config, clock, failures, run, tables, idx, pk, response,
                 data, pages, transformed_data, files, s3, outcome,
                 stepFailed, processed, previous, httpResponse>>

\* _execute_query: cursor.execute raises; except Exception: rollback, print,
\* and the function falls off its end (returns None)
ExecuteQueryFail ==
  /\ pc = "load"
  /\ ~Executable(CurrentQuery) \/ CanFail
  /\ failures' = IF Executable(CurrentQuery) THEN failures + 1 ELSE failures
  /\ IF execute_query_except = "swallow"
     THEN /\ statements' = Append(statements,
               [query |-> CurrentQuery, end |-> "rollback", returned |-> None])
          /\ AfterStatement
          /\ stepFailed' = TRUE
          /\ UNCHANGED outcome
     ELSE /\ statements' = Append(statements,
               [query |-> CurrentQuery, end |-> "rollback", returned |-> "raised"])
          /\ Raise(LoadLog, table, "load", "DatabaseError")
          /\ UNCHANGED stmt
  /\ UNCHANGED <<config, clock, run, tables, idx, pk, response, data, pages,
                 transformed_data, stores, processed, previous, httpResponse>>

(***************************************************************************)
(* The specification.                                                      *)
(***************************************************************************)
Next ==
  \/ Tick
  \/ HttpGet
  \/ StartRun
  \/ ListTablesOk
  \/ ListTablesFail
  \/ LoopEnd
  \/ LoopSkip
  \/ LoopEnter
  \/ KeySchemaOk
  \/ KeySchemaFail
  \/ ScanFirst
  \/ ScanNext
  \/ ScanFail
  \/ TransformUnbound
  \/ TransformCall
  \/ TransformItem
  \/ TransformReturn
  \/ StageOk
  \/ StageFail
  \/ UploadOk
  \/ UploadFail
  \/ ExecuteQueryOk
  \/ ExecuteQueryFail

Spec == Init /\ [][Next]_vars

(***************************************************************************)
(* Properties.                                                             *)
(***************************************************************************)
StageOrder == <<"scan", "transform", "stage", "upload", "load">>
StageIndex(stage) == CHOOSE i \in 1..Len(StageOrder) : StageOrder[i] = stage
AfterScanStages == {"transform", "transforming", "stage", "upload", "load"}
HasHashKey(t) ==
  \E i \in 1..Len(KeySchemaOf(t)) : KeyTypeOf(KeySchemaOf(t)[i]) = "HASH"
PartitionKey(t) ==
  KeySchemaOf(t)[CHOOSE i \in 1..Len(KeySchemaOf(t)) :
                   KeyTypeOf(KeySchemaOf(t)[i]) = "HASH"].AttributeName
Eligible(env, t) == env = "dev" => startswith(t, <<"s", "t", "g">>)
RunClean == pc = "done" /\ ~stepFailed
WithoutUpdatedAt(rows) ==
  [i \in 1..Len(rows) |->
     [id |-> rows[i].id, data |-> rows[i].data,
      createdAt |-> rows[i].createdAt, isDeleted |-> rows[i].isDeleted]]

\* C1: in every run the stages of a table are called in the order scan,
\* transform, stage, upload, load; a stage is called only when the previous
\* stage of the same table has returned without error, and the scan of a
\* table only when the load of the table before it (or list_tables) has
\* returned; every return or error follows the call of its own stage.
C1_StagesInOrder ==
  \A k \in 1..Len(log) :
    LET b == log[k] IN
      \/ k = 1 /\ b = Ev(<<>>, "list", "call")
      \/ /\ k > 1
         /\ LET a == log[k - 1] IN
              IF b.ev # "call"
              THEN a = Ev(b.table, b.stage, "call")
              ELSE IF b.stage = "scan"
              THEN \/ a = Ev(<<>>, "list", "ok")
                   \/ a.stage = "load" /\ a.ev = "ok" /\ a.table # b.table
              ELSE /\ b.stage \in Range(StageOrder)
                   /\ a.table = b.table
                   /\ a.ev = "ok"
                   /\ StageIndex(b.stage) = StageIndex(a.stage) + 1

\* a run went through all five stages of two tables
C1_Witness ==
  /\ pc = "done"
  /\ Len(processed) = 2
  /\ \A t \in Range(processed) : \E k \in 1..Len(log) : log[k] = Ev(t, "load", "ok")
  /\ Last(log) = Ev(processed[2], "load", "ok")

\* C2: an error raised to extract_and_load, from list_tables or from a stage
\* of some table, ends the run: it is the last event of the run, no stage of
\* a later table is executed, and extract_and_load returns to its caller
\* without raising.
C2_ErrorEndsRun ==
  /\ \A k \in 1..Len(log) :
       log[k].ev = "error" =>
         /\ k = Len(log)
         /\ pc = "done"
         /\ caught # NoError
         /\ ~propagated
  /\ caught # NoError => Last(log).ev = "error"
  /\ ~propagated

\* a run ended by an error in the first of two eligible tables
C2_Witness ==
  /\ pc = "done"
  /\ caught # NoError
  /\ idx = 1
  /\ Len(tables) = 2
  /\ ~is_skipped(environment, tables[2])
  /\ Last(log).table = tables[1]

\* C3: after a run in which no step failed, raw_<t> of every processed table
\* t holds one row per item of t, in scan order, with id the item's
\* partition-key value and isDeleted false, and nothing else.
C3_FullRefresh ==
  RunClean =>
    \A t \in Range(processed) :
      /\ HasTable(warehouse, raw_(t))
      /\ Len(warehouse[raw_(t)]) = Len(ItemsOf(t))
      /\ \A i \in 1..Len(ItemsOf(t)) :
           /\ warehouse[raw_(t)][i].id = ItemsOf(t)[i][PartitionKey(t)]
           /\ warehouse[raw_(t)][i].isDeleted = FALSE

\* a clean second run over a table of two items scanned in several pages,
\* whose warehouse table held the rows of the first run
C3_Witness ==
  /\ RunClean
  /\ run = 2
  /\ idx > 0 /\ table = stg_users
  /\ pages >= 2
  /\ HasTable(previous.warehouse, raw_(stg_users))
  /\ Len(previous.warehouse[raw_(stg_users)]) = 2

C5_CreateTruncateCopy ==
  /\ \A k \in 1..Len(statements) :
       LET q == statements[k].query IN
         /\ q.kind = "create" => (k - 1) % 3 = 0
         /\ q.kind = "truncate" =>
              /\ k > 1
              /\ statements[k - 1].query = [kind |-> "create", table |-> q.table]
         /\ q.kind = "copy" =>
              /\ k > 1
              /\ statements[k - 1].query = [kind |-> "truncate", table |-> q.table]
              /\ q.iam_role = arn
              /\ \E t \in Range(processed) :
                   /\ q.table = raw_(t)
                   /\ q.from = [scheme |-> "s3", bucket |-> bucket_name,
                                key |-> local_path_of(t)]
  /\ \A k \in 1..Len(log) :
       log[k] = Ev(log[k].table, "load", "ok") =>
         \E j \in 1..Len(statements) :
           /\ statements[j].query.kind = "copy"
           /\ statements[j].query.table = raw_(log[k].table)

\* a load whose create failed and that still issued truncate and COPY
C5_Witness ==
  /\ Len(statements) >= 3
  /\ statements[1].query.kind = "create"
  /\ statements[1].end = "rollback"
  /\ statements[2].query.kind = "truncate"
  /\ statements[3].query.kind = "copy"

C7_ScanReturnsAllItems ==
  (pc \in AfterScanStages) =>
    /\ "LastEvaluatedKey" \notin DOMAIN response
    /\ data = ItemsOf(table)

\* two items returned in three pages, the last one empty
C7_Witness ==
  /\ pc = "transform"
  /\ pages = 3
  /\ Len(data) = 2

\* C8: after a run in which no step failed, the tables processed are the
\* tables of the store that are eligible in the environment: all of them,
\* or in dev those whose name starts with stg.
C8_ProcessedAllEligible ==
  RunClean =>
    Range(processed) = {t \in Range(store) : Eligible(environment, t)}

C10_HelloWorld ==
  httpResponse # NoResponse =>
    /\ httpResponse.status_code = 200
    /\ httpResponse.json.kind = "string"
    /\ httpResponse.json.val = "Hello World"
====
